---- MODULE Spec2Model ----
(***************************************************************************)
(* A model of gsout (src/gsout.py): list the courses, inspect each one,    *)
(* sort them by term, locate and download every assignment's submission,   *)
(* write README.md and archive the staging directory.                      *)
(*                                                                         *)
(* Python strings are sequences of one-character strings, so that split,   *)
(* join, int() and the in-operator are computed, not assumed.              *)
(***************************************************************************)
EXTENDS Integers, Sequences, FiniteSets, TLC

VARIABLES
    pc,              \* position of the run (or of the function under study)
    course_slugs,    \* main: the set list_courses() returned
    pending,         \* main: the slugs the inspection loop has yet to visit
    courses,         \* main: the list `courses` of InspectedCourse
    sorted_courses,  \* the value of sort_courses(courses)
    i_term,          \* main: position of the term loop in sorted_courses
    i_course,        \* main: position of the course loop in the term's courses
    i_asg,           \* main: position of the assignment loop in course.assignments
    i_sub,           \* main: position of the submission loop in submissions
    i_assignment,    \* main: the running index printed with each assignment
    n_assignments,   \* main: the total printed with each assignment
    progress,        \* the assignment progress lines printed so far
    response,        \* list_submissions: what session.get answered
    link,            \* list_submissions: the local `link`
    submissions,     \* the value of list_submissions(course, assignment)
    index,           \* download: candidates of submission.files already visited
    filenames,       \* download: the list `filenames`
    outcomes,        \* download: what happened to each candidate visited
    tmpdir,          \* the names of the files in the staging directory
    tmpdir_exists,   \* whether the staging directory exists
    readme,          \* the lines written to README.md
    archive,         \* the entries of the output archive
    archive_exists,  \* whether the output archive exists
    log              \* the operations the run has completed, in order

sortVars == <<courses, sorted_courses>>

locateVars == <<response, link, submissions>>

runVars ==
    <<course_slugs, pending, i_term, i_course, i_asg, i_sub, i_assignment,
      n_assignments, progress, index, filenames, outcomes, tmpdir, tmpdir_exists,
      readme, archive, archive_exists, log>>

vars == <<pc, sortVars, locateVars, runVars>>

(***************************************************************************)
(* Bounds of the model.                                                    *)
(***************************************************************************)
MaxSortLen == 3

MaxSegs == 4

\* graded assignments of a run, over all its courses
MaxAssignments == 2

\* files a run opens for writing in the staging directory
MaxWritten == 4

(***************************************************************************)
(* Python string operations.                                               *)
(***************************************************************************)
DIGITS == <<"0", "1", "2", "3", "4", "5", "6", "7", "8", "9">>

IsDigit(c) == \E d \in 1..10 : DIGITS[d] = c

DigitVal(c) == (CHOOSE d \in 1..10 : DIGITS[d] = c) - 1

WHITESPACE == {" ", "\t", "\n", "\r"}

\* str(n) for n >= 0
RECURSIVE IntToStr(_)
IntToStr(n) ==
    IF n < 10 THEN <<DIGITS[n + 1]>>
    ELSE IntToStr(n \div 10) \o <<DIGITS[(n % 10) + 1]>>

\* s.find(p, i), 1-based, 0 when p does not occur at or after i
RECURSIVE Find(_, _, _)
Find(s, p, i) ==
    IF i + Len(p) - 1 > Len(s) THEN 0
    ELSE IF SubSeq(s, i, i + Len(p) - 1) = p THEN i
    ELSE Find(s, p, i + 1)

\* p in s
Contains(s, p) == Find(s, p, 1) # 0

\* s.split(sep)
RECURSIVE Split(_, _)
Split(s, sep) ==
    LET i == Find(s, sep, 1)
    IN  IF i = 0 THEN <<s>>
        ELSE <<SubSeq(s, 1, i - 1)>> \o Split(SubSeq(s, i + Len(sep), Len(s)), sep)

\* ''.join(parts)
RECURSIVE Join(_)
Join(parts) ==
    IF parts = <<>> THEN <<>> ELSE Head(parts) \o Join(Tail(parts))

\* the length of the leading run of non-whitespace characters of s
RECURSIVE WordLen(_)
WordLen(s) ==
    IF s = <<>> \/ Head(s) \in WHITESPACE THEN 0 ELSE 1 + WordLen(Tail(s))

\* s.split(): the words between runs of whitespace
RECURSIVE SplitWs(_)
SplitWs(s) ==
    IF s = <<>> THEN <<>>
    ELSE IF Head(s) \in WHITESPACE THEN SplitWs(Tail(s))
    ELSE LET n == WordLen(s)
         IN  <<SubSeq(s, 1, n)>> \o SplitWs(SubSeq(s, n + 1, Len(s)))

\* s.strip()
RECURSIVE Strip(_)
Strip(s) ==
    IF s = <<>> THEN s
    ELSE IF Head(s) \in WHITESPACE THEN Strip(Tail(s))
    ELSE IF s[Len(s)] \in WHITESPACE THEN Strip(SubSeq(s, 1, Len(s) - 1))
    ELSE s

\* the value of a run of digits and single inner underscores, read left to right
RECURSIVE DigitsValue(_, _)
DigitsValue(s, acc) ==
    IF s = <<>> THEN acc
    ELSE IF Head(s) = "_" THEN DigitsValue(Tail(s), acc)
    ELSE DigitsValue(Tail(s), 10 * acc + DigitVal(Head(s)))

\* int(w) of a word without whitespace: an optional sign, then digits that
\* single underscores may separate; ok = FALSE stands for ValueError
ParseInt(w) ==
    LET signed == w # <<>> /\ Head(w) \in {"+", "-"}
        body   == IF signed THEN Tail(w) ELSE w
        wellformed ==
            /\ body # <<>>
            /\ \A i \in 1..Len(body) : IsDigit(body[i]) \/ body[i] = "_"
            /\ IsDigit(body[1]) /\ IsDigit(body[Len(body)])
            /\ \A i \in 1..(Len(body) - 1) : ~(body[i] = "_" /\ body[i + 1] = "_")
    IN  IF ~wellformed THEN [ok |-> FALSE, val |-> 0]
        ELSE [ok  |-> TRUE,
              val |-> IF signed /\ Head(w) = "-"
                      THEN 0 - DigitsValue(body, 0)
                      ELSE DigitsValue(body, 0)]

(***************************************************************************)
(* Term sorter: sort_courses.                                              *)
(***************************************************************************)
Spring == <<"S", "p", "r", "i", "n", "g">>
Summer == <<"S", "u", "m", "m", "e", "r">>
Fall   == <<"F", "a", "l", "l">>
Winter == <<"W", "i", "n", "t", "e", "r">>

\* a plausible slip: the seasons ranked alphabetically
SEASON_ORDER_alphabetical == (Fall :> 0) @@ (Spring :> 1) @@ (Summer :> 2)

SEASON_ORDER == (Spring :> 0) @@ (Summer :> 1) @@ (Fall :> 2)

\* the sort key of a term; <<0, 0>> is the value after the except branch
term_chrono_index(term) ==
    LET words == SplitWs(term)
    IN  IF Len(words) # 2 THEN <<0, 0>>
        ELSE LET year == ParseInt(words[2])
             IN  IF ~year.ok THEN <<0, 0>>
                 ELSE IF words[1] \notin DOMAIN SEASON_ORDER THEN <<0, 0>>
                 ELSE <<year.val, SEASON_ORDER[words[1]]>>

\* Python's order on pairs of integers
TupleLess(a, b) == a[1] < b[1] \/ (a[1] = b[1] /\ a[2] < b[2])

\* a plausible slip: a repeated term's courses gathered newest first
by_term_add_prepending(groups, course) ==
    IF \E i \in 1..Len(groups) : groups[i].term = course.term
    THEN LET i == CHOOSE i \in 1..Len(groups) : groups[i].term = course.term
         IN  [groups EXCEPT ![i].courses = <<course>> \o @]
    ELSE Append(groups, [term |-> course.term, courses |-> <<course>>])

\* by_term[course.term] = by_term.get(course.term, []) + [course]; a dict keeps
\* its keys in the order of their first insertion
by_term_add(groups, course) ==
    IF \E i \in 1..Len(groups) : groups[i].term = course.term
    THEN LET i == CHOOSE i \in 1..Len(groups) : groups[i].term = course.term
         IN  [groups EXCEPT ![i].courses = Append(@, course)]
    ELSE Append(groups, [term |-> course.term, courses |-> <<course>>])

RECURSIVE by_term(_)
by_term(cs) ==
    IF cs = <<>> THEN <<>>
    ELSE by_term_add(by_term(SubSeq(cs, 1, Len(cs) - 1)), cs[Len(cs)])

\* sorted() is stable: an item goes after every item whose key is not greater
RECURSIVE InsertByKey(_, _)
InsertByKey(sorted, item) ==
    IF sorted = <<>> THEN <<item>>
    ELSE IF TupleLess(term_chrono_index(item.term), term_chrono_index(Head(sorted).term))
         THEN <<item>> \o sorted
         ELSE <<Head(sorted)>> \o InsertByKey(Tail(sorted), item)

RECURSIVE SortedByKey(_)
SortedByKey(items) ==
    IF items = <<>> THEN <<>>
    ELSE InsertByKey(SortedByKey(SubSeq(items, 1, Len(items) - 1)), items[Len(items)])

sort_courses(cs) == SortedByKey(by_term(cs))

(***************************************************************************)
(* The terms sort_courses is studied on, each with what it denotes: whether *)
(* it reads as "{Season} {Year}" with a season of SEASON_ORDER, and if so   *)
(* its year and its season's rank (Spring 0, Summer 1, Fall 2).             *)
(***************************************************************************)
Y2022 == <<"2", "0", "2", "2">>
Y2023 == <<"2", "0", "2", "3">>

TermPool ==
    { [raw |-> Fall \o <<" ">> \o Y2023,            parses |-> TRUE,  year |-> 2023, rank |-> 2],
      [raw |-> Spring \o <<" ">> \o Y2022,          parses |-> TRUE,  year |-> 2022, rank |-> 0],
      [raw |-> Summer \o <<" ">> \o Y2022,          parses |-> TRUE,  year |-> 2022, rank |-> 1],
      [raw |-> Spring \o <<" ">> \o Y2023,          parses |-> TRUE,  year |-> 2023, rank |-> 0],
      [raw |-> Fall \o <<" ", " ">> \o <<"2", "_", "0", "2", "3">>,
                                                    parses |-> TRUE,  year |-> 2023, rank |-> 2],
      [raw |-> Spring \o <<" ", "0">>,              parses |-> TRUE,  year |-> 0,    rank |-> 0],
      [raw |-> Fall \o <<" ", "-", "1">>,           parses |-> TRUE,  year |-> -1,   rank |-> 2],
      [raw |-> Winter \o <<" ">> \o Y2023,          parses |-> FALSE, year |-> 0,    rank |-> 0],
      [raw |-> Fall,                                parses |-> FALSE, year |-> 0,    rank |-> 0],
      [raw |-> Fall \o <<" ", "2", "x">>,           parses |-> FALSE, year |-> 0,    rank |-> 0] }

TermRaws == {t.raw : t \in TermPool}

Denotes(raw) == CHOOSE t \in TermPool : t.raw = raw

(***************************************************************************)
(* Submission locator: list_submissions.                                   *)
(***************************************************************************)
BASE_URL ==
    <<"h", "t", "t", "p", "s", ":", "/", "/", "w", "w", "w", ".", "g", "r",
      "a", "d", "e", "s", "c", "o", "p", "e", ".", "c", "o", "m">>

UPLOAD_PREFIX ==
    <<"h", "t", "t", "p", "s", ":", "/", "/", "p", "r", "o", "d", "u", "c",
      "t", "i", "o", "n", "-", "g", "r", "a", "d", "e", "s", "c", "o", "p",
      "e", "-", "u", "p", "l", "o", "a", "d", "s">>

QUOT == <<"&", "q", "u", "o", "t">>

PDF == <<"p", "d", "f">>

ZIP == <<"z", "i", "p">>

COURSES_PATH == <<"/", "c", "o", "u", "r", "s", "e", "s", "/">>

ASSIGNMENTS_PATH ==
    <<"/", "a", "s", "s", "i", "g", "n", "m", "e", "n", "t", "s", "/">>

SUBMISSIONS_PATH ==
    <<"/", "s", "u", "b", "m", "i", "s", "s", "i", "o", "n", "s", "/">>

\* f"{BASE_URL}/courses/{course.slug}/assignments/{assignment.slug}/submissions/{assignment.submission}"
submission_url(course, assignment) ==
    BASE_URL \o COURSES_PATH \o course.slug \o ASSIGNMENTS_PATH \o assignment.slug
             \o SUBMISSIONS_PATH \o assignment.submission

\* What session.get answers for the submission page:
\*   raises         the request raised;
\*   json = "str"   the text is JSON and data["pdf_attachment"]["url"] is the
\*                  string url;
\*   json = "num"   the text is JSON and that value is a number, true, false
\*                  or null, so that `"pdf" in link` raises TypeError;
\*   json = "none"  json.loads or one of the two lookups raised, and text is
\*                  the response text the fallback searches.
NoResponse == [raises |-> FALSE, json |-> "none", url |-> <<>>, text |-> <<>>]

\* ('https://production-gradescope-uploads'
\*    + ''.join(response.text.split("https://production-gradescope-uploads")[1:])
\* ).split("&quot")[0]
fallback_link(text) ==
    Split(UPLOAD_PREFIX \o Join(Tail(Split(text, UPLOAD_PREFIX))), QUOT)[1]

\* the inner try/except: the JSON field, else the fallback
extract_link(resp) ==
    IF resp.json = "none" THEN fallback_link(resp.text) ELSE resp.url

\* a plausible slip: the scraped link kept whatever it contains
candidate_files_unfiltered(course, assignment, resp) ==
    LET guess(ext) == [url |-> submission_url(course, assignment) \o <<".">> \o ext,
                       ext |-> ext]
    IN  <<guess(PDF), guess(ZIP)>> \o
        (IF resp.raises \/ resp.json = "num" THEN <<>>
         ELSE <<[url |-> extract_link(resp), ext |-> PDF]>>)

\* the list `files`: the two guesses, then the scraped link when the request
\* and the extraction raised nothing and the link contains "pdf"
candidate_files(course, assignment, resp) ==
    LET guess(ext) == [url |-> submission_url(course, assignment) \o <<".">> \o ext,
                       ext |-> ext]
    IN  <<guess(PDF), guess(ZIP)>> \o
        (IF resp.raises THEN <<>>
         ELSE IF resp.json = "num" THEN <<>>
         ELSE IF Contains(extract_link(resp), PDF)
              THEN <<[url |-> extract_link(resp), ext |-> PDF]>>
              ELSE <<>>)

\* a plausible slip once the TODO is taken up: more than one submission
list_submissions_with_history(course, assignment, resp) ==
    <<[slug |-> assignment.submission, files |-> candidate_files(course, assignment, resp)],
      [slug |-> assignment.submission, files |-> candidate_files(course, assignment, resp)]>>

list_submissions(course, assignment, resp) ==
    <<[slug |-> assignment.submission, files |-> candidate_files(course, assignment, resp)]>>

\* the value of `link` when list_submissions returns; <<>> when it was never bound
link_of(resp) ==
    IF resp.raises THEN <<>> ELSE extract_link(resp)

(***************************************************************************)
(* The responses list_submissions is studied on: texts of up to MaxSegs     *)
(* pieces, JSON documents, and a failed request.                           *)
(***************************************************************************)
A_PDF == <<"/", "a", ".", "p", "d", "f">>

B_TXT == <<"/", "b">>

SegPool == {UPLOAD_PREFIX, QUOT, A_PDF, B_TXT}

Texts ==
    { Join([i \in 1..n |-> f[i]]) : n \in 0..MaxSegs, f \in [1..MaxSegs -> SegPool] }

ResponsePool ==
    {[raises |-> TRUE, json |-> "none", url |-> <<>>, text |-> <<>>]}
    \cup {[raises |-> FALSE, json |-> "str", url |-> u, text |-> <<>>] :
            u \in {UPLOAD_PREFIX \o A_PDF, UPLOAD_PREFIX \o B_TXT, A_PDF, <<>>}}
    \cup {[raises |-> FALSE, json |-> "num", url |-> <<>>, text |-> <<>>]}
    \cup {[raises |-> FALSE, json |-> "none", url |-> <<>>, text |-> t] : t \in Texts}

\* the course and the assignment the locator is studied on
LocCourse == [slug |-> <<"1">>, term |-> Fall \o <<" ">> \o Y2023, assignments |-> <<>>]

LocAssignment == [slug |-> <<"5">>, submission |-> <<"8">>]

(***************************************************************************)
(* The values of the variables a specification does not use.               *)
(***************************************************************************)
IdleSort == courses = <<>> /\ sorted_courses = <<>>

IdleLocate == response = NoResponse /\ link = <<>> /\ submissions = <<>>

(***************************************************************************)
(* Course lister: list_courses.                                            *)
(***************************************************************************)
SLASH == <<"/">>

Last(seq) == seq[Len(seq)]

\* The dashboard: the request raises, or the page holds anchors of class
\* courseBox, each with an href or without one (class_link['href'] then
\* raises KeyError).
list_courses(dash) ==
    [ok    |-> ~dash.raises /\ \A i \in 1..Len(dash.anchors) : dash.anchors[i].has_href,
     slugs |-> {Strip(Last(Split(dash.anchors[i].href, SLASH))) : i \in 1..Len(dash.anchors)}]

\* the courses a dashboard of the model can show
CourseSlugs == {<<"1">>, <<"2">>}

AnchorPool ==
    {[has_href |-> TRUE, href |-> COURSES_PATH \o slug] : slug \in CourseSlugs}
    \cup {[has_href |-> FALSE, href |-> <<>>]}

\* a failed request, or a page of up to two anchors
DashboardPool ==
    {[raises |-> TRUE, anchors |-> <<>>]}
    \cup { [raises |-> FALSE, anchors |-> [i \in 1..n |-> f[i]]] :
             n \in 0..Cardinality(CourseSlugs),
             f \in [1..Cardinality(CourseSlugs) -> AnchorPool] }

(***************************************************************************)
(* Course inspector: inspect_course.                                       *)
(***************************************************************************)
\* the rows that hold both a link and a submissionStatus--score element
scored_rows(rows) == SelectSeq(rows, LAMBDA r : r.a /\ r.score)

\* A course page: the request raises; or one of the elements looked up with
\* find (the assignments table, the two sidebar titles, the term header, the
\* roster) is missing (complete = FALSE) and the lookup on None raises; or
\* the page gives the term text and the rows of the table.  The names, the
\* grades and the instructors do not bear on what is studied and are left out.
inspect_course(slug, page) ==
    LET rows  == scored_rows(page.rows)
        parts(i) == Split(rows[i].href, SLASH)
    IN  [ok     |-> /\ ~page.raises
                    /\ page.complete
                    /\ \A i \in 1..Len(rows) : Len(parts(i)) >= 3,
         course |-> [slug        |-> slug,
                     term        |-> Strip(page.term),
                     assignments |->
                        [i \in 1..Len(rows) |->
                            [slug       |-> Strip(parts(i)[Len(parts(i)) - 2]),
                             submission |-> Strip(Last(parts(i)))]]]]

\* the terms of the course pages of a run, as the header element gives them
MainTermTexts ==
    { Fall \o <<" ">> \o Y2023,
      <<" ">> \o Spring \o <<" ">> \o Y2022 \o <<"\n">> }

assignment_href(slug, asg, sub) ==
    COURSES_PATH \o slug \o ASSIGNMENTS_PATH \o asg \o SUBMISSIONS_PATH \o sub

\* the table of a course with k graded assignments: the header row, a row of
\* an assignment without a score yet, then the rows of assignments 11, 12, ...
\* with submissions 21, 22, ...
course_rows(slug, k) ==
    << [a |-> FALSE, score |-> FALSE, href |-> <<>>],
       [a |-> TRUE,  score |-> FALSE, href |-> assignment_href(slug, <<"1", "0">>, <<"2", "0">>)] >>
    \o [i \in 1..k |->
          [a |-> TRUE, score |-> TRUE,
           href |-> assignment_href(slug, IntToStr(10 + i), IntToStr(20 + i))]]

course_page(slug, t, k) ==
    [raises |-> FALSE, complete |-> TRUE, term |-> t, rows |-> course_rows(slug, k)]

PagePool(slug) ==
    {[raises |-> TRUE,  complete |-> FALSE, term |-> <<>>, rows |-> <<>>],
     [raises |-> FALSE, complete |-> FALSE, term |-> <<>>, rows |-> <<>>]}
    \cup { course_page(slug, t, k) : t \in MainTermTexts, k \in 0..MaxAssignments }

(***************************************************************************)
(* Downloader: download.                                                   *)
(***************************************************************************)
\* What happens to one candidate:
\*   "get_raises"    session.get raised;
\*   "non200"        the status is not 200;
\*   "open_raises"   the status is 200 and open() raised: no file is made;
\*   "write_raises"  the status is 200, open() made the file, and reading the
\*                   body or writing it raised;
\*   "ok"            the status is 200 and the body was written to the end.
Outcomes == {"get_raises", "non200", "open_raises", "write_raises", "ok"}

\* f"{course}-{assignment}-{submission.slug}-{index + 1}.{link.ext}"
filename(course, assignment, submission, idx, file) ==
    course \o <<"-">> \o assignment \o <<"-">> \o submission.slug
           \o <<"-">> \o IntToStr(idx + 1) \o <<".">> \o file.ext

\* a plausible slip: the position as enumerate gives it, from 0
DownloadedFile_zero_based(idx, name, file) ==
    [index |-> idx, path |-> name, ext |-> file.ext]

\* DownloadedFile(index=index + 1, path=filename, ext=link.ext)
DownloadedFile(idx, name, file) ==
    [index |-> idx + 1, path |-> name, ext |-> file.ext]

\* a plausible slip: the file recorded before it is opened and written
download_candidate_recorded_first(dir, names, idx, name, file, outcome) ==
    IF outcome \in {"get_raises", "non200"}
    THEN [dir |-> dir, filenames |-> names]
    ELSE [dir       |-> IF outcome = "open_raises" THEN dir ELSE dir \cup {name},
          filenames |-> Append(names, DownloadedFile(idx, name, file))]

\* the body of the loop for one candidate: the staging directory and the
\* list `filenames` after it
download_candidate(dir, names, idx, name, file, outcome) ==
    IF outcome = "get_raises" THEN [dir |-> dir, filenames |-> names]
    ELSE IF outcome = "non200" THEN [dir |-> dir, filenames |-> names]
    ELSE IF outcome = "open_raises" THEN [dir |-> dir, filenames |-> names]
    ELSE IF outcome = "write_raises" THEN [dir |-> dir \cup {name}, filenames |-> names]
    ELSE [dir       |-> dir \cup {name},
          filenames |-> Append(names, DownloadedFile(idx, name, file))]

(***************************************************************************)
(* Orchestrator: main.                                                     *)
(***************************************************************************)
README_MD == <<"R", "E", "A", "D", "M", "E", ".", "m", "d">>

\* tempfile.TemporaryDirectory(delete=False)
TMPDIR_DELETE == FALSE

\* a line of README.md
Line(kind, text, links) == [kind |-> kind, text |-> text, links |-> links]

\* an operation the run completed
Event(ev, course, k) == [ev |-> ev, course |-> course, k |-> k]

\* sum([len(course.assignments) for course in courses])
RECURSIVE total_assignments(_)
total_assignments(cs) ==
    IF cs = <<>> THEN 0 ELSE Len(Head(cs).assignments) + total_assignments(Tail(cs))

\* the responses to the submission page requests of a run
MainResponses ==
    { [raises |-> TRUE,  json |-> "none", url |-> <<>>, text |-> <<>>],
      [raises |-> FALSE, json |-> "str",  url |-> UPLOAD_PREFIX \o A_PDF, text |-> <<>>],
      [raises |-> FALSE, json |-> "none", url |-> <<>>, text |-> B_TXT] }

CurTerm == sorted_courses[i_term]

CurCourse == CurTerm.courses[i_course]

CurAssignment == CurCourse.assignments[i_asg]

CurSubmission == submissions[i_sub]

IdleRun ==
    /\ course_slugs = {} /\ pending = {}
    /\ i_term = 0 /\ i_course = 0 /\ i_asg = 0 /\ i_sub = 0
    /\ i_assignment = 0 /\ n_assignments = 0 /\ progress = <<>>
    /\ index = 0 /\ filenames = <<>> /\ outcomes = <<>>
    /\ tmpdir = {} /\ tmpdir_exists = FALSE
    /\ readme = <<>>
    /\ archive = {} /\ archive_exists = FALSE
    /\ log = <<>>

Init ==
    /\ pc = "start"
    /\ IdleSort
    /\ IdleLocate
    /\ IdleRun

\* lines 218-228: the staging directory, README.md in it, the title
Start ==
    /\ pc = "start"
    /\ tmpdir_exists' = TRUE
    /\ tmpdir' = {README_MD}
    /\ readme' = <<Line("title", <<>>, <<>>)>>
    /\ pc' = "list"
    /\ UNCHANGED <<sortVars, locateVars, course_slugs, pending, i_term, i_course,
                   i_asg, i_sub, i_assignment, n_assignments, progress, index,
                   filenames, outcomes, archive, archive_exists, log>>

\* line 229
ListCourses ==
    /\ pc = "list"
    /\ \E dash \in DashboardPool :
          /\ list_courses(dash).ok
          /\ course_slugs' = list_courses(dash).slugs
          /\ pending' = list_courses(dash).slugs
    /\ log' = Append(log, Event("list", <<>>, 0))
    /\ pc' = "inspect"
    /\ UNCHANGED <<sortVars, locateVars, i_term, i_course, i_asg, i_sub,
                   i_assignment, n_assignments, progress, index, filenames,
                   outcomes, tmpdir, tmpdir_exists, readme, archive, archive_exists>>

\* an exception leaves main: the with blocks exit and the run ends
Abort ==
    /\ pc' = "crashed"
    /\ tmpdir_exists' = IF TMPDIR_DELETE THEN FALSE ELSE tmpdir_exists
    /\ log' = Append(log, Event("fatal", <<>>, 0))
    /\ UNCHANGED <<sortVars, locateVars, course_slugs, pending, i_term, i_course,
                   i_asg, i_sub, i_assignment, n_assignments, progress, index,
                   filenames, outcomes, tmpdir, readme, archive, archive_exists>>

\* line 229, list_courses raising
ListCoursesFatal ==
    /\ pc = "list"
    /\ \E dash \in DashboardPool : ~list_courses(dash).ok
    /\ Abort

\* a plausible slip: a course whose page cannot be read is passed over
InspectCourseSkipped ==
    /\ pc = "inspect"
    /\ \E slug \in pending : \E page \in PagePool(slug) :
          /\ ~inspect_course(slug, page).ok
          /\ pending' = pending \ {slug}
    /\ UNCHANGED <<pc, sortVars, locateVars, course_slugs, i_term, i_course,
                   i_asg, i_sub, i_assignment, n_assignments, progress, index,
                   filenames, outcomes, tmpdir, tmpdir_exists, readme, archive,
                   archive_exists, log>>

\* lines 230-231, inspect_course raising
InspectCourseFatal ==
    /\ pc = "inspect"
    /\ \E slug \in pending : \E page \in PagePool(slug) : ~inspect_course(slug, page).ok
    /\ Abort

\* lines 230-233: one turn of the inspection loop; a set is visited in an
\* order the program does not choose
InspectCourse ==
    /\ pc = "inspect"
    /\ \E slug \in pending : \E page \in PagePool(slug) :
          LET r == inspect_course(slug, page)
          IN  /\ r.ok
              /\ total_assignments(courses) + Len(r.course.assignments) <= MaxAssignments
              /\ courses' = Append(courses, r.course)
              /\ pending' = pending \ {slug}
              /\ log' = Append(log, Event("inspect", slug, 0))
    /\ UNCHANGED <<pc, sorted_courses, locateVars, course_slugs, i_term, i_course,
                   i_asg, i_sub, i_assignment, n_assignments, progress, index,
                   filenames, outcomes, tmpdir, tmpdir_exists, readme, archive,
                   archive_exists>>

\* lines 235-239: the inspection loop is over
SortCourses ==
    /\ pc = "inspect"
    /\ pending = {}
    /\ i_assignment' = 1
    /\ n_assignments' = total_assignments(courses)
    /\ sorted_courses' = sort_courses(courses)
    /\ i_term' = 1
    /\ pc' = "terms"
    /\ UNCHANGED <<courses, locateVars, course_slugs, pending, i_course, i_asg,
                   i_sub, progress, index, filenames, outcomes, tmpdir,
                   tmpdir_exists, readme, archive, archive_exists, log>>

\* lines 239-240: a term begins
BeginTerm ==
    /\ pc = "terms"
    /\ i_term <= Len(sorted_courses)
    /\ readme' = Append(readme, Line("term", CurTerm.term, <<>>))
    /\ i_course' = 1
    /\ pc' = "courses"
    /\ UNCHANGED <<sortVars, locateVars, course_slugs, pending, i_term, i_asg,
                   i_sub, i_assignment, n_assignments, progress, index, filenames,
                   outcomes, tmpdir, tmpdir_exists, archive, archive_exists, log>>

\* lines 242-251: a course begins
BeginCourse ==
    /\ pc = "courses"
    /\ i_course <= Len(CurTerm.courses)
    /\ readme' = Append(readme, Line("course", CurCourse.slug, <<>>))
    /\ i_asg' = 1
    /\ pc' = "assignments"
    /\ UNCHANGED <<sortVars, locateVars, course_slugs, pending, i_term, i_course,
                   i_sub, i_assignment, n_assignments, progress, index, filenames,
                   outcomes, tmpdir, tmpdir_exists, archive, archive_exists, log>>

\* line 242: the courses of the term are done
EndTerm ==
    /\ pc = "courses"
    /\ i_course > Len(CurTerm.courses)
    /\ i_term' = i_term + 1
    /\ pc' = "terms"
    /\ UNCHANGED <<sortVars, locateVars, course_slugs, pending, i_course, i_asg,
                   i_sub, i_assignment, n_assignments, progress, index, filenames,
                   outcomes, tmpdir, tmpdir_exists, readme, archive, archive_exists,
                   log>>

\* lines 253-258: an assignment begins: its progress line, its README line,
\* and list_submissions
BeginAssignment ==
    /\ pc = "assignments"
    /\ i_asg <= Len(CurCourse.assignments)
    /\ progress' = Append(progress, [i |-> i_assignment, n |-> n_assignments])
    /\ readme' = Append(readme, Line("assignment", CurAssignment.slug, <<>>))
    /\ \E resp \in MainResponses :
          submissions' = list_submissions(CurCourse, CurAssignment, resp)
    /\ log' = Append(log, Event("locate", CurCourse.slug, i_asg))
    /\ i_sub' = 1
    /\ pc' = "submissions"
    /\ UNCHANGED <<sortVars, response, link, course_slugs, pending, i_term,
                   i_course, i_asg, i_assignment, n_assignments, index, filenames,
                   outcomes, tmpdir, tmpdir_exists, archive, archive_exists>>

\* line 253: the assignments of the course are done
EndCourse ==
    /\ pc = "assignments"
    /\ i_asg > Len(CurCourse.assignments)
    /\ i_course' = i_course + 1
    /\ pc' = "courses"
    /\ UNCHANGED <<sortVars, locateVars, course_slugs, pending, i_term, i_asg,
                   i_sub, i_assignment, n_assignments, progress, index, filenames,
                   outcomes, tmpdir, tmpdir_exists, readme, archive, archive_exists,
                   log>>

\* lines 259-262 and 172: a submission begins and download is entered
BeginSubmission ==
    /\ pc = "submissions"
    /\ i_sub <= Len(submissions)
    /\ index' = 0
    /\ filenames' = <<>>
    /\ outcomes' = <<>>
    /\ log' = Append(log, Event("download_start", CurCourse.slug, i_asg))
    /\ pc' = "download"
    /\ UNCHANGED <<sortVars, locateVars, course_slugs, pending, i_term, i_course,
                   i_asg, i_sub, i_assignment, n_assignments, progress, tmpdir,
                   tmpdir_exists, readme, archive, archive_exists>>

\* line 259: the submissions of the assignment are done; `submissions` is not
\* read again before it is assigned
EndAssignment ==
    /\ pc = "submissions"
    /\ i_sub > Len(submissions)
    /\ submissions' = <<>>
    /\ i_asg' = i_asg + 1
    /\ pc' = "assignments"
    /\ UNCHANGED <<sortVars, response, link, course_slugs, pending, i_term,
                   i_course, i_sub, i_assignment, n_assignments, progress, index,
                   filenames, outcomes, tmpdir, tmpdir_exists, readme, archive,
                   archive_exists, log>>

\* lines 173-190: one turn of the loop of download; the except clause ends
\* the turn, not the loop
DownloadTurn(outcome) ==
    /\ pc = "download"
    /\ index < Len(CurSubmission.files)
    /\ outcome \in {"write_raises", "ok"} => Cardinality(tmpdir \ {README_MD}) < MaxWritten
    /\ LET file == CurSubmission.files[index + 1]
           name == filename(CurCourse.slug, CurAssignment.slug, CurSubmission, index, file)
           r    == download_candidate(tmpdir, filenames, index, name, file, outcome)
       IN  /\ tmpdir' = r.dir
           /\ filenames' = r.filenames
    /\ index' = index + 1
    /\ UNCHANGED <<pc, sortVars, locateVars, course_slugs, pending, i_term,
                   i_course, i_asg, i_sub, i_assignment, n_assignments, progress,
                   tmpdir_exists, readme, archive, archive_exists, log>>

\* in a run, what happened to each candidate is not kept
DownloadFile(outcome) ==
    /\ DownloadTurn(outcome)
    /\ UNCHANGED outcomes

\* download on its own: the same turn, with what happened to each candidate
\* of the call on record
DownloadFileTraced(outcome) ==
    /\ DownloadTurn(outcome)
    /\ outcomes' = Append(outcomes, outcome)

\* lines 192 and 263-274: download returns `filenames`; the submission's
\* README line is written and i_assignment is incremented; the locals of
\* download are gone
ReportSubmission ==
    /\ pc = "download"
    /\ index = Len(CurSubmission.files)
    /\ readme' = Append(readme, Line("submission", CurSubmission.slug, filenames))
    /\ log' = Append(log, Event("download", CurCourse.slug, i_asg))
    /\ i_assignment' = i_assignment + 1
    /\ i_sub' = i_sub + 1
    /\ index' = 0
    /\ filenames' = <<>>
    /\ outcomes' = <<>>
    /\ pc' = "submissions"
    /\ UNCHANGED <<sortVars, locateVars, course_slugs, pending, i_term, i_course,
                   i_asg, n_assignments, progress, tmpdir, tmpdir_exists, archive,
                   archive_exists>>

\* lines 239 and 276: the terms are done, README.md is closed, and
\* shutil.make_archive packs the staging directory
MakeArchive ==
    /\ pc = "terms"
    /\ i_term > Len(sorted_courses)
    /\ archive' = tmpdir
    /\ archive_exists' = TRUE
    /\ log' = Append(log, Event("archive", <<>>, 0))
    /\ pc' = "archived"
    /\ UNCHANGED <<sortVars, locateVars, course_slugs, pending, i_term, i_course,
                   i_asg, i_sub, i_assignment, n_assignments, progress, index,
                   filenames, outcomes, tmpdir, tmpdir_exists, readme>>

\* line 218: the with block of the staging directory exits; its directory is
\* removed when delete is true
ExitTmpdir ==
    /\ pc = "archived"
    /\ tmpdir_exists' = IF TMPDIR_DELETE THEN FALSE ELSE tmpdir_exists
    /\ pc' = "done"
    /\ UNCHANGED <<sortVars, locateVars, course_slugs, pending, i_term, i_course,
                   i_asg, i_sub, i_assignment, n_assignments, progress, index,
                   filenames, outcomes, tmpdir, readme, archive, archive_exists, log>>

Next ==
    \/ Start
    \/ ListCourses
    \/ ListCoursesFatal
    \/ InspectCourse
    \/ InspectCourseFatal
    \/ SortCourses
    \/ BeginTerm
    \/ BeginCourse
    \/ EndTerm
    \/ BeginAssignment
    \/ EndCourse
    \/ BeginSubmission
    \/ EndAssignment
    \/ \E outcome \in Outcomes : DownloadFile(outcome)
    \/ ReportSubmission
    \/ MakeArchive
    \/ ExitTmpdir

Spec == Init /\ [][Next]_vars

(***************************************************************************)
(* sort_courses and list_submissions on their own.                         *)
(***************************************************************************)

\* the course lists of up to MaxSortLen courses, the i-th with slug str(i)
SortInputs ==
    { [i \in 1..n |-> [slug |-> IntToStr(i), term |-> f[i], assignments |-> <<>>]] :
        n \in 0..MaxSortLen, f \in [1..MaxSortLen -> TermRaws] }

InitSort ==
    /\ pc = "sort_input"
    /\ courses \in SortInputs
    /\ sorted_courses = <<>>
    /\ IdleLocate
    /\ IdleRun

ApplySort ==
    /\ pc = "sort_input"
    /\ sorted_courses' = sort_courses(courses)
    /\ pc' = "sort_output"
    /\ UNCHANGED <<courses, locateVars, runVars>>

NextSort == ApplySort

SpecSort == InitSort /\ [][NextSort]_vars

InitLocate ==
    /\ pc = "locate_input"
    /\ response \in ResponsePool
    /\ link = <<>>
    /\ submissions = <<>>
    /\ IdleSort
    /\ IdleRun

ApplyLocate ==
    /\ pc = "locate_input"
    /\ submissions' = list_submissions(LocCourse, LocAssignment, response)
    /\ link' = link_of(response)
    /\ pc' = "locate_output"
    /\ UNCHANGED <<response, sortVars, runVars>>

NextLocate == ApplyLocate

SpecLocate == InitLocate /\ [][NextLocate]_vars

\* download on its own: a run over one course with one assignment, taken
\* where list_submissions has just returned
DlCourse == inspect_course(<<"1">>, course_page(<<"1">>, Fall \o <<" ">> \o Y2023, 1)).course

InitDownload ==
    /\ pc = "submissions"
    /\ course_slugs = {<<"1">>} /\ pending = {}
    /\ courses = <<DlCourse>>
    /\ sorted_courses = sort_courses(<<DlCourse>>)
    /\ i_term = 1 /\ i_course = 1 /\ i_asg = 1 /\ i_sub = 1
    /\ i_assignment = 1 /\ n_assignments = 1
    /\ progress = <<[i |-> 1, n |-> 1]>>
    /\ response = NoResponse /\ link = <<>>
    /\ \E resp \in MainResponses :
          submissions = list_submissions(DlCourse, DlCourse.assignments[1], resp)
    /\ index = 0 /\ filenames = <<>> /\ outcomes = <<>>
    /\ tmpdir = {README_MD} /\ tmpdir_exists = TRUE
    /\ readme = << Line("title", <<>>, <<>>),
                   Line("term", DlCourse.term, <<>>),
                   Line("course", DlCourse.slug, <<>>),
                   Line("assignment", DlCourse.assignments[1].slug, <<>>) >>
    /\ archive = {} /\ archive_exists = FALSE
    /\ log = << Event("list", <<>>, 0),
                Event("inspect", DlCourse.slug, 0),
                Event("locate", DlCourse.slug, 1) >>

NextDownload ==
    \/ BeginSubmission
    \/ \E outcome \in Outcomes : DownloadFileTraced(outcome)
    \/ ReportSubmission

SpecDownload == InitDownload /\ [][NextDownload]_vars

(***************************************************************************)
(* Properties of sort_courses, checked under SpecSort.                     *)
(***************************************************************************)
SortDone == pc = "sort_output"

\* what a term of the output denotes: its (year, rank), or "unparseable"
Den(i) == Denotes(sorted_courses[i].term)

DenKey(i) == IF Den(i).parses THEN <<Den(i).year, Den(i).rank>> ELSE <<0, 0>>

\* C1, as stated: the parseable terms of the output are in ascending
\* (year, season rank) order, Spring 0 < Summer 1 < Fall 2, and every
\* unparseable term comes before every parseable term.
C1_UnparseableBeforeAllParseable ==
    SortDone =>
        \A i, j \in 1..Len(sorted_courses) :
            i < j =>
                /\ (Den(i).parses /\ Den(j).parses) => ~TupleLess(DenKey(j), DenKey(i))
                /\ ~(Den(i).parses /\ ~Den(j).parses)

\* C1, amended: the output is in ascending order of key, the key of a
\* parseable term being its (year, season rank) and the key of an unparseable
\* term <<0, 0>>; so an unparseable term comes before every parseable term
\* whose (year, rank) is greater than <<0, 0>>, and terms of equal key keep
\* the order of their first appearance in the input.
C1_SortedByKeyWithUnparseableAtZero ==
    SortDone =>
        /\ \A i, j \in 1..Len(sorted_courses) :
              i < j =>
                  /\ ~TupleLess(DenKey(j), DenKey(i))
                  /\ (Den(i).parses /\ ~Den(j).parses) => ~TupleLess(<<0, 0>>, DenKey(i))
        /\ \A i, j \in 1..Len(sorted_courses) :
              (i < j /\ DenKey(i) = DenKey(j)) =>
                  LET first(t) == CHOOSE k \in 1..Len(courses) :
                                      /\ courses[k].term = t
                                      /\ \A m \in 1..(k - 1) : courses[m].term # t
                  IN  first(sorted_courses[i].term) < first(sorted_courses[j].term)

\* C1's case: an output that had to be reordered, holding an unparseable term
\* ahead of parseable ones of two different years and two different seasons.
C1_Witness ==
    /\ SortDone
    /\ Len(sorted_courses) = 3
    /\ ~Den(1).parses /\ Den(2).parses /\ Den(3).parses
    /\ Den(2).year = Den(3).year /\ Den(2).rank < Den(3).rank
    /\ courses[1].term = sorted_courses[3].term

\* C2: the output partitions the input by raw term: the labels are distinct,
\* every input term is a label, and the courses of a pair are exactly the
\* input courses of that term, in their input order (so each input course is
\* in one pair, once); two "Fall 2023" courses c1, c3 around a "Spring 2022"
\* course c2 give [("Spring 2022", [c2]), ("Fall 2023", [c1, c3])].
C2_PartitionByRawTermInInputOrder ==
    SortDone =>
        /\ \A i, j \in 1..Len(sorted_courses) :
              i # j => sorted_courses[i].term # sorted_courses[j].term
        /\ \A k \in 1..Len(courses) :
              \E i \in 1..Len(sorted_courses) : sorted_courses[i].term = courses[k].term
        /\ \A i \in 1..Len(sorted_courses) :
              /\ sorted_courses[i].courses # <<>>
              /\ sorted_courses[i].courses =
                    SelectSeq(courses, LAMBDA c : c.term = sorted_courses[i].term)
        /\ (/\ Len(courses) = 3
            /\ courses[1].term = Fall \o <<" ">> \o Y2023
            /\ courses[2].term = Spring \o <<" ">> \o Y2022
            /\ courses[3].term = Fall \o <<" ">> \o Y2023)
           => sorted_courses =
                <<[term |-> Spring \o <<" ">> \o Y2022, courses |-> <<courses[2]>>],
                  [term |-> Fall \o <<" ">> \o Y2023, courses |-> <<courses[1], courses[3]>>]>>

\* C2's case: the spec's example, two courses of one term around a course of
\* an earlier term.
C2_Witness ==
    /\ SortDone
    /\ Len(courses) = 3
    /\ courses[1].term = courses[3].term
    /\ Len(sorted_courses) = 2
    /\ sorted_courses[1].term = courses[2].term
    /\ Len(sorted_courses[2].courses) = 2

(***************************************************************************)
(* Properties of list_submissions, checked under SpecLocate.               *)
(***************************************************************************)
LocateDone == pc = "locate_output"

ExpectedPdfGuess ==
    <<"h", "t", "t", "p", "s", ":", "/", "/", "w", "w", "w", ".", "g", "r",
      "a", "d", "e", "s", "c", "o", "p", "e", ".", "c", "o", "m", "/", "c",
      "o", "u", "r", "s", "e", "s", "/", "1", "/", "a", "s", "s", "i", "g",
      "n", "m", "e", "n", "t", "s", "/", "5", "/", "s", "u", "b", "m", "i",
      "s", "s", "i", "o", "n", "s", "/", "8", ".", "p", "d", "f">>

ExpectedZipGuess ==
    <<"h", "t", "t", "p", "s", ":", "/", "/", "w", "w", "w", ".", "g", "r",
      "a", "d", "e", "s", "c", "o", "p", "e", ".", "c", "o", "m", "/", "c",
      "o", "u", "r", "s", "e", "s", "/", "1", "/", "a", "s", "s", "i", "g",
      "n", "m", "e", "n", "t", "s", "/", "5", "/", "s", "u", "b", "m", "i",
      "s", "s", "i", "o", "n", "s", "/", "8", ".", "z", "i", "p">>

TwoGuesses ==
    <<[url |-> ExpectedPdfGuess, ext |-> PDF], [url |-> ExpectedZipGuess, ext |-> ZIP]>>

\* the response is JSON whose pdf_attachment.url is a string containing "pdf"
JsonLinkHasPdf ==
    ~response.raises /\ response.json = "str" /\ Contains(response.url, PDF)

\* the request raised, the extraction raised, or the link that the JSON field
\* or else the fallback yielded does not contain "pdf"
NoPdfLink ==
    \/ response.raises
    \/ response.json = "num"
    \/ ~Contains(link, PDF)

\* C3: list_submissions returns exactly one submission, of the assignment's
\* submission id; its files are the .pdf guess, the .zip guess and then the
\* link (tagged pdf), three in all, when the response is JSON whose
\* pdf_attachment.url contains "pdf"; and the two guesses alone when the
\* request or the extraction raised or the link the extraction yielded
\* (from the JSON field, else from the fallback) does not contain "pdf".
C3_TwoGuessesPlusPdfLink ==
    LocateDone =>
        /\ Len(submissions) = 1
        /\ submissions[1].slug = LocAssignment.submission
        /\ JsonLinkHasPdf =>
              submissions[1].files = TwoGuesses \o <<[url |-> response.url, ext |-> PDF]>>
        /\ NoPdfLink => submissions[1].files = TwoGuesses

\* C3's case: a JSON response whose pdf_attachment.url contains "pdf" has
\* been located, and three candidates came back.
C3_Witness ==
    /\ LocateDone
    /\ JsonLinkHasPdf
    /\ Len(submissions[1].files) = 3

\* where the upload-host prefix first occurs in the response text (0: nowhere)
FirstPrefix == Find(response.text, UPLOAD_PREFIX, 1)

\* where "&quot" next occurs after that occurrence of the prefix (0: nowhere)
NextQuot == Find(response.text, QUOT, FirstPrefix + Len(UPLOAD_PREFIX))

\* C9: when the fallback runs, on a text in which the prefix occurs and
\* "&quot" occurs after it, the link is the text from the first occurrence of
\* the prefix up to just before that next "&quot".
C9_FallbackIsFirstPrefixToNextQuot ==
    (/\ LocateDone
     /\ ~response.raises /\ response.json = "none"
     /\ FirstPrefix # 0 /\ NextQuot # 0)
    => link = SubSeq(response.text, FirstPrefix, NextQuot - 1)

(***************************************************************************)
(* Properties of download (under SpecDownload) and of the run (under Spec). *)
(***************************************************************************)
\* the submission lines of README.md
SubmissionLines == {i \in 1..Len(readme) : readme[i].kind = "submission"}

\* the file names README.md links to
LinkedNames ==
    UNION { {readme[i].links[k].path : k \in 1..Len(readme[i].links)} :
              i \in SubmissionLines }

HasEvent(ev) == \E k \in 1..Len(log) : log[k].ev = ev

\* what download must hold in `filenames` after its first n candidates: the
\* ones whose outcome was "ok", in order, each with its 1-based position
RECURSIVE ExpectedFiles(_)
ExpectedFiles(n) ==
    IF n = 0 THEN <<>>
    ELSE ExpectedFiles(n - 1) \o
         (IF outcomes[n] = "ok"
          THEN <<[index |-> n,
                  path  |-> CurCourse.slug \o <<"-">> \o CurAssignment.slug \o <<"-">>
                            \o CurSubmission.slug \o <<"-">> \o <<DIGITS[n + 1]>>
                            \o <<".">> \o CurSubmission.files[n].ext,
                  ext   |-> CurSubmission.files[n].ext]>>
          ELSE <<>>)

\* C4: whatever happens to each candidate (200, another status, an exception
\* at the request, at open or while writing), download visits the candidates
\* one by one to the last and returns, without raising; the list it returns
\* holds exactly those that answered 200 and were written to the end, in
\* order, each with its 1-based position in submission.files and its
\* extension, and each of them is in the staging directory.
C4_DownloadReturnsExactlyWrittenFiles ==
    /\ pc \in {"submissions", "download"}
    /\ pc = "download" =>
          /\ index <= Len(CurSubmission.files)
          /\ Len(outcomes) = index
          /\ filenames = ExpectedFiles(index)
          /\ \A k \in 1..Len(filenames) : filenames[k].path \in tmpdir
    /\ \A i \in SubmissionLines :
          /\ log[Len(log)] = Event("download", DlCourse.slug, 1)
          /\ \A k \in 1..Len(readme[i].links) :
                /\ readme[i].links[k].index \in 1..Len(submissions[1].files)
                /\ readme[i].links[k].ext = submissions[1].files[readme[i].links[k].index].ext
                /\ readme[i].links[k].path \in tmpdir
                /\ \A m \in 1..(k - 1) : readme[i].links[m].index < readme[i].links[k].index

\* C4's case: three candidates visited to the last, the first answering 404,
\* the second failing while its file is written, the third written.
C4_Witness ==
    /\ pc = "download"
    /\ index = 3
    /\ Len(CurSubmission.files) = 3
    /\ outcomes = <<"non200", "write_raises", "ok">>
    /\ Len(filenames) = 1
    /\ filenames[1].index = 3

\* C5: every file name README.md links to is the name of a file of the
\* staging directory, and, once the archive is made, of an entry of the archive.
C5_ReadmeLinksAreArchived ==
    /\ LinkedNames \subseteq tmpdir
    /\ archive_exists => LinkedNames \subseteq archive

\* C5's case: a completed run whose README.md links to a downloaded file and
\* also has a submission with no files, some candidates having been skipped
\* and some having failed.
C5_Witness ==
    /\ pc = "done"
    /\ archive_exists
    /\ \E i, j \in SubmissionLines : readme[i].links # <<>> /\ readme[j].links = <<>>
    /\ Cardinality(archive) > Cardinality(LinkedNames) + 1

LocatedAndDownloadedBefore(k, slug, a) ==
    \E m1, m2 \in 1..(k - 1) :
        /\ m1 < m2
        /\ log[m1] = Event("locate", slug, a)
        /\ log[m2] = Event("download", slug, a)

AllInspectedBefore(k) ==
    /\ \E m \in 1..(k - 1) : log[m].ev = "list"
    /\ \A slug \in course_slugs : \E m \in 1..(k - 1) : log[m] = Event("inspect", slug, 0)

\* C6: the archive exists only after the dashboard was listed, every course
\* of it inspected, and every assignment of every course located and
\* downloaded; after a fatal error there is no archive and the run is over;
\* and nothing is located or downloaded before every course was inspected.
C6_ArchiveOnlyAfterEverything ==
    /\ archive_exists => HasEvent("archive")
    /\ \A k \in 1..Len(log) :
          log[k].ev = "archive" =>
              /\ AllInspectedBefore(k)
              /\ {courses[i].slug : i \in 1..Len(courses)} = course_slugs
              /\ \A i \in 1..Len(courses) : \A a \in 1..Len(courses[i].assignments) :
                    LocatedAndDownloadedBefore(k, courses[i].slug, a)
    /\ HasEvent("fatal") => pc = "crashed" /\ ~archive_exists /\ ~HasEvent("archive")
    /\ pc = "crashed" => HasEvent("fatal")
    /\ \A k \in 1..Len(log) :
          log[k].ev \in {"locate", "download_start", "download"} => AllInspectedBefore(k)

\* C6's case: a completed run over two courses with an assignment each.
C6_Witness ==
    /\ pc = "done"
    /\ archive_exists
    /\ Len(courses) = 2
    /\ \A i \in 1..2 : Len(courses[i].assignments) = 1

\* C7: in the final state of a completed run the archive exists and the
\* staging directory no longer exists.
C7_StagingDirectoryDiscarded ==
    pc = "done" => archive_exists /\ ~tmpdir_exists

\* the assignments of the inspected courses, one pair per assignment
AllAssignments ==
    UNION { {<<i, a>> : a \in 1..Len(courses[i].assignments)} : i \in 1..Len(courses) }

\* C8: in the download phase the total printed is the number of assignments
\* of all inspected courses; the k-th assignment progress line shows index k
\* of that total, never more than the total; and a completed run has printed
\* exactly that many lines.
C8_ProgressCountsEveryAssignment ==
    pc \notin {"start", "list", "inspect", "crashed"} =>
        /\ n_assignments = Cardinality(AllAssignments)
        /\ Len(progress) <= n_assignments
        /\ \A k \in 1..Len(progress) :
              progress[k] = [i |-> k, n |-> n_assignments]
        /\ pc \in {"archived", "done"} => Len(progress) = n_assignments

\* C8's case: a completed run that printed [1/2] and [2/2].
C8_Witness ==
    /\ pc = "done"
    /\ n_assignments = 2
    /\ progress = <<[i |-> 1, n |-> 2], [i |-> 2, n |-> 2]>>

\* C10: every entry of the archive other than README.md is linked from a
\* submission line of README.md.
C10_NoOrphanInArchive ==
    archive_exists => (archive \ {README_MD}) \subseteq LinkedNames

====
